---- MODULE Spec2Model ----
(***************************************************************************)
(* The tidy-data pipeline of Tidy.ipynb: read the games CSV, clean it,     *)
(* melt it to one row per team appearance, compute each team's days of     *)
(* rest, pivot the rest values back to one row per game, join them onto    *)
(* the games and answer the rest-advantage exercise.                       *)
(*                                                                         *)
(* A table is a sequence of rows; a row is a record whose fields are the   *)
(* table's columns.  A cell is <<>> when it is missing (NaN/NaT) and <<v>> *)
(* when it holds v; index levels (game_id, date) and melt's row label      *)
(* (idx) are bare values.                                                  *)
(***************************************************************************)
EXTENDS Integers, Sequences, FiniteSets, TLC

VARIABLES pc, raw, games, teams, rest, by_game, games_rest, win_rate

vars == <<pc, raw, games, teams, rest, by_game, games_rest, win_rate>>

\* Largest number of lines of the CSV file that the model reads.
MaxRows == 3

NaN == <<>>

notna(c) == c # NaN

isna(c) == c = NaN

-----------------------------------------------------------------------------
(* The source file.  Every line carries its Date field: a game line a date  *)
(* such as "Tue, Oct 27, 2015", a month separator the month's name.         *)

Date(wd, mon, day) == <<[wd |-> wd, mon |-> mon, day |-> day, year |-> 2015]>>

DateStrings ==
    { Date("Tue", "Oct", 27), Date("Fri", "Oct", 30),
      Date("Sat", "Oct", 31), Date("Sun", "Nov", 1) }

Matchups ==
    { <<"Cavaliers", "Bulls">>, <<"Bulls", "Cavaliers">>,
      <<"Cavaliers", "Hawks">>, <<"Hawks", "Bulls">> }

\* A line of the file, as read_csv returns it (the nine columns of the header).
CsvRow(date, start, box, away, apts, home, hpts) ==
    [ Date |-> date, Start |-> start, Unnamed2 |-> box,
      Visitor |-> away, PTS |-> apts, Home |-> home, PTS1 |-> hpts,
      Unnamed7 |-> NaN, Notes |-> NaN ]

\* "October,,,,,,,,": the Date field holds a month's name and no date.
SeparatorRow ==
    CsvRow(<<[wd |-> "", mon |-> "October", day |-> 0, year |-> 0]>>,
           NaN, NaN, NaN, NaN, NaN, NaN)

\* Complete game lines, the away team winning or losing by the score below.
GameRows ==
    { CsvRow(d, <<"8:00 pm">>, <<"Box Score">>, <<m[1]>>, <<95>>, <<m[2]>>, <<97>>) :
        d \in DateStrings, m \in Matchups }

\* The game lines of two of the days.
GameRowsOnTwoDays ==
    { r \in GameRows : r.Date \in {Date("Tue", "Oct", 27), Date("Fri", "Oct", 30)} }

\* Lines with missing fields: 3, 4, 5 and 6 of the nine fields present.
PartialRows ==
    LET d == Date("Tue", "Oct", 27)
        e == Date("Fri", "Oct", 30)
    IN  { CsvRow(x, NaN, NaN, <<m[1]>>, NaN, <<m[2]>>, NaN) :
            x \in {d, e}, m \in {<<"Cavaliers", "Bulls">>} }
        \cup
        { CsvRow(x, <<"8:00 pm">>, NaN, <<m[1]>>, NaN, <<m[2]>>, NaN) :
            x \in {d, e}, m \in {<<"Cavaliers", "Bulls">>, <<"Bulls", "Cavaliers">>} }
        \cup
        { CsvRow(x, <<"8:00 pm">>, <<"Box Score">>, NaN, <<95>>, <<"Bulls">>, NaN) :
            x \in {d, e} }
        \cup
        { CsvRow(x, <<"8:00 pm">>, <<"Box Score">>, <<"Bulls">>, <<97>>, NaN, <<95>>) :
            x \in {d, e} }

-----------------------------------------------------------------------------
(* Helpers on sequences.                                                    *)

Range(s) == { s[i] : i \in DOMAIN s }

\* Lexicographic strict order of two tuples of integers of one length.
RECURSIVE LexLess(_, _)
LexLess(a, b) ==
    /\ a # <<>>
    /\ \/ a[1] < b[1]
       \/ a[1] = b[1] /\ LexLess(Tail(a), Tail(b))

\* Insert the pair p = <<key, row>> into the sorted sequence s of such pairs,
\* after the pairs whose key is not greater (a stable insertion).
RECURSIVE Insert(_, _)
Insert(s, p) ==
    IF s = <<>> THEN <<p>>
    ELSE IF LexLess(p[1], s[1][1]) THEN <<p>> \o s
    ELSE <<s[1]>> \o Insert(Tail(s), p)

RECURSIVE SortPairs(_)
SortPairs(s) ==
    IF s = <<>> THEN <<>>
    ELSE Insert(SortPairs(SubSeq(s, 1, Len(s) - 1)), s[Len(s)])

\* Stable sort of rows given as pairs <<key, row>>: the rows, by their keys.
SortBy(keyed) ==
    LET sorted == SortPairs(keyed)
    IN  [ i \in DOMAIN keyed |-> sorted[i][2] ]

RECURSIVE SumSeq(_)
SumSeq(s) == IF s = <<>> THEN 0 ELSE s[1] + SumSeq(Tail(s))

\* The distinct values of s, in the order of their first occurrence.
RECURSIVE Unique(_)
Unique(s) ==
    IF s = <<>> THEN <<>>
    ELSE LET u == Unique(SubSeq(s, 1, Len(s) - 1))
         IN  IF s[Len(s)] \in Range(u) THEN u ELSE Append(u, s[Len(s)])

-----------------------------------------------------------------------------
(* games: read_csv, rename, dropna(thresh=4), column selection,            *)
(* to_datetime, set_index, sort_index.                                      *)

CsvColumns ==
    {"Date", "Start", "Unnamed2", "Visitor", "PTS", "Home", "PTS1", "Unnamed7", "Notes"}

\* The number of non-missing fields of a line.
count_notna(r) == Cardinality({ c \in CsvColumns : notna(r[c]) })

\* The comment's reading of the threshold: drop a line with more than 4 missing values.
dropna_thresh_by_missing(r) == Cardinality(CsvColumns) - count_notna(r) <= 4

\* dropna(thresh=4) keeps a line that has at least 4 non-missing values.
dropna_thresh(r) == count_notna(r) >= 4

\* Days from 2015-01-01 to the first day of the month.
DaysBeforeMonth(mon) ==
    CASE mon = "Oct" -> 273
      [] mon = "Nov" -> 304
      [] mon = "Dec" -> 334

\* pd.to_datetime(format='%a, %b %d, %Y'): the day number of the date; the
\* weekday name is read and takes no part in the result.
to_datetime(c) ==
    LET s == c[1]
    IN  365 * (s.year - 2015) + DaysBeforeMonth(s.mon) + (s.day - 1)

\* The index of a row: (game_id, date).
IndexKey(r) == <<r.game_id, r.date>>

\* The cleaned table of the line numbers i of the file, kept in order.
RECURSIVE CleanRows(_, _)
CleanRows(csv, i) ==
    IF i > Len(csv) THEN <<>>
    ELSE LET r == csv[i]
             g == [ game_id |-> i - 1, date |-> to_datetime(r.Date),
                    away_team |-> r.Visitor, away_points |-> r.PTS,
                    home_team |-> r.Home, home_points |-> r.PTS1 ]
         IN  IF dropna_thresh(r) THEN <<g>> \o CleanRows(csv, i + 1)
             ELSE CleanRows(csv, i + 1)

Games(csv) ==
    LET g == CleanRows(csv, 1)
    IN  SortBy([ i \in DOMAIN g |-> <<IndexKey(g[i]), g[i]>> ])

-----------------------------------------------------------------------------
(* teams: reset_index, melt, sort_values.                                   *)

\* One appearance per game for the column var, labelled from offset on.
MeltColumn(g, var, offset) ==
    [ i \in 1..Len(g) |->
        [ idx |-> offset + i - 1, game_id |-> g[i].game_id, date |-> g[i].date,
          home_away |-> var, team |-> g[i][var] ] ]

\* melt with only home_team among the value_vars.
MeltHomeOnly(g) == MeltColumn(g, "home_team", 0)

\* melt(id_vars=['game_id', 'date'], value_vars=['away_team', 'home_team']):
\* the away_team rows of all games, then the home_team rows.
Melt(g) == MeltColumn(g, "away_team", 0) \o MeltColumn(g, "home_team", Len(g))

\* sort_values(['game_id', 'date']): game_id is the line number of the file and
\* differs from row to row, so it alone decides the order.
SortTeams(t) == SortBy([ i \in DOMAIN t |-> <<IndexKey(t[i]), t[i]>> ])

Teams(g) == SortTeams(Melt(g))

-----------------------------------------------------------------------------
(* rest: the Bulls' computation, repeated for each team by groupby.          *)

\* bulls = teams[teams['team'] == 'Chicago Bulls']: a team's rows, in the
\* order of teams.
TeamRows(t, team) == SelectSeq(t, LAMBDA r : r.team = team)

\* A diff whose first row is filled with 0.
DiffZeroFilled(s) == [ i \in DOMAIN s |-> IF i = 1 THEN <<0>> ELSE <<s[i] - s[i - 1]>> ]

\* Series.diff(): each value less the value of the row before it; the first
\* row has no row before it.
Diff(s) == [ i \in DOMAIN s |-> IF i = 1 THEN NaN ELSE <<s[i] - s[i - 1]>> ]

\* The days between two games, with no day taken off.
DaysBetween(d) == d

\* diff().dt.days - 1 of one difference of dates.
DaysOfRest(d) == d - 1

\* bulls['date'].diff().dt.days - 1, each value under its row label.
RestOfTeam(b) ==
    LET d == Diff([ i \in DOMAIN b |-> b[i].date ])
    IN  [ i \in DOMAIN b |->
            [ idx |-> b[i].idx,
              rest |-> IF isna(d[i]) THEN NaN ELSE <<DaysOfRest(d[i][1])>> ] ]

\* groupby('team', dropna=False): the rows whose team is missing form a group.
GroupbyRestKeepNa(t) ==
    [ k \in { r.idx : r \in Range(t) } |->
        LET row == CHOOSE r \in Range(t) : r.idx = k
            g == RestOfTeam(TeamRows(t, row.team))
            i == CHOOSE j \in DOMAIN g : g[j].idx = k
        IN  g[i].rest ]

\* teams.groupby('team')['date'].diff().dt.days - 1: the series of the rest
\* values by row label.  A row whose team is missing is in no group.
GroupbyRest(t) ==
    [ k \in { r.idx : r \in Range(t) } |->
        LET row == CHOOSE r \in Range(t) : r.idx = k
        IN  IF isna(row.team) THEN NaN
            ELSE LET g == RestOfTeam(TeamRows(t, row.team))
                     i == CHOOSE j \in DOMAIN g : g[j].idx = k
                 IN  g[i].rest ]

\* teams['rest'] = rest: the values are aligned on the row labels.
AssignRest(t, series) ==
    [ i \in DOMAIN t |->
        t[i] @@ [ rest |-> IF t[i].idx \in DOMAIN series
                           THEN series[t[i].idx] ELSE NaN ] ]

-----------------------------------------------------------------------------
(* by_game: pivot_table, rename.                                             *)

\* The columns of melt's variable are sorted by name.
RoleRank(var) == IF var = "away_team" THEN 0 ELSE 1

PivotKey(r) == <<r.game_id, r.date, RoleRank(r.home_away)>>

\* The mean of the cells that are not missing; missing when there is none.
\* A group of the pivot holds the one row of its game and role, so that the
\* quotient is exact.
Mean(cells) ==
    LET vals == SelectSeq(cells, notna)
    IN  IF vals = <<>> THEN NaN
        ELSE <<SumSeq([ i \in DOMAIN vals |-> vals[i][1] ]) \div Len(vals)>>

\* groupby(['game_id', 'date', 'home_away']).agg('mean') of the rest column,
\* the groups sorted by their keys, then dropna(how='all').
Agged(t) ==
    LET groups == Unique([ i \in DOMAIN t |->
                    [ game_id |-> t[i].game_id, date |-> t[i].date,
                      home_away |-> t[i].home_away ] ])
        keys == SortBy([ i \in DOMAIN groups |-> <<PivotKey(groups[i]), groups[i]>> ])
        mean(k) ==
            LET rows == SelectSeq(t, LAMBDA r : /\ r.game_id = k.game_id
                                               /\ r.date = k.date
                                               /\ r.home_away = k.home_away)
            IN  Mean([ i \in DOMAIN rows |-> rows[i].rest ])
        agged == [ i \in DOMAIN keys |-> keys[i] @@ [ rest |-> mean(keys[i]) ] ]
    IN  SelectSeq(agged, LAMBDA a : notna(a.rest))

\* rename(columns={'away_team': 'home_rest', 'home_team': 'away_rest'}).
RenameSwapped(var) == IF var = "away_team" THEN "home_rest" ELSE "away_rest"

\* rename(columns={'away_team': 'away_rest', 'home_team': 'home_rest'}).
Rename(var) == IF var = "away_team" THEN "away_rest" ELSE "home_rest"

\* The value of column var in the row (game_id, date) of the unstacked table.
Unstacked(agged, k, var) ==
    LET hit == SelectSeq(agged, LAMBDA a : /\ a.game_id = k.game_id
                                          /\ a.date = k.date
                                          /\ a.home_away = var)
    IN  IF hit = <<>> THEN NaN ELSE hit[1].rest

\* A pivot that leaves one row per aggregated value: the roles are not
\* unstacked into one row per game.
PivotTableLong(t) ==
    LET agged == Agged(t)
        vars_ == { a.home_away : a \in Range(agged) }
    IN  [ columns |-> { Rename(v) : v \in vars_ },
          rows |-> [ i \in DOMAIN agged |->
                       [ c \in {"game_id", "date"} \cup { Rename(v) : v \in vars_ } |->
                           IF c \in {"game_id", "date"} THEN agged[i][c]
                           ELSE IF Rename(agged[i].home_away) = c THEN agged[i].rest
                           ELSE NaN ] ] ]

\* pd.pivot_table(teams, values='rest', index=['game_id', 'date'],
\* columns='home_away'): one row per (game_id, date) left in the aggregate,
\* one column per home_away value left in it.
PivotTable(t) ==
    LET agged == Agged(t)
        index == Unique([ i \in DOMAIN agged |->
                    [ game_id |-> agged[i].game_id, date |-> agged[i].date ] ])
        vars_ == { a.home_away : a \in Range(agged) }
    IN  [ columns |-> { Rename(v) : v \in vars_ },
          rows |-> [ i \in DOMAIN index |->
                       [ c \in {"game_id", "date"} \cup { Rename(v) : v \in vars_ } |->
                           IF c \in {"game_id", "date"} THEN index[i][c]
                           ELSE LET v == CHOOSE w \in vars_ : Rename(w) = c
                                IN  Unstacked(agged, index[i], v) ] ] ]

-----------------------------------------------------------------------------
(* games_rest: concat(axis='columns'), dropna.                               *)

GamesColumns == {"away_team", "away_points", "home_team", "home_points"}

\* The row of table rows under the index k, or missing values in the columns.
Reindexed(rows, columns, k) ==
    LET hit == SelectSeq(rows, LAMBDA r : r.game_id = k.game_id /\ r.date = k.date)
    IN  [ c \in columns |-> IF hit = <<>> THEN NaN ELSE hit[1][c] ]

\* pd.concat([games, by_game], axis='columns'): the rows of both tables are
\* joined on the union of their indexes.
Concat(g, b) ==
    LET key(r) == [ game_id |-> r.game_id, date |-> r.date ]
        index == Unique([ i \in DOMAIN g |-> key(g[i]) ]
                        \o [ i \in DOMAIN b.rows |-> key(b.rows[i]) ])
    IN  [ columns |-> GamesColumns \cup b.columns,
          rows |-> [ i \in DOMAIN index |->
                       index[i] @@ Reindexed(g, GamesColumns, index[i])
                                @@ Reindexed(b.rows, b.columns, index[i]) ] ]

\* dropna() keeps the rows that have no missing value in any column.
Dropna(table) ==
    [ columns |-> table.columns,
      rows |-> SelectSeq(table.rows,
                   LAMBDA r : \A c \in table.columns : notna(r[c])) ]

GamesRest(g, b) == Dropna(Concat(g, b))

-----------------------------------------------------------------------------
(* The exercise: does the home team win more often when it is more rested?   *)

\* The home team had at least as much rest as the away team.
HomeNotLessRested(r) == r.home_rest[1] >= r.away_rest[1]

\* games_rest['home_rest'] > games_rest['away_rest']
HomeMoreRested(r) == r.home_rest[1] > r.away_rest[1]

\* The home team won: it has more points.
HomeWon(r) == r.home_points[1] > r.away_points[1]

\* The number of rows of the group key in which the home team won, and the
\* size of the group: the mean is their quotient.
RECURSIVE Tally(_, _)
Tally(rows, key) ==
    IF rows = <<>> THEN <<0, 0>>
    ELSE LET rec == Tally(Tail(rows), key)
         IN  IF HomeMoreRested(rows[1]) # key THEN rec
             ELSE <<rec[1] + (IF HomeWon(rows[1]) THEN 1 ELSE 0), rec[2] + 1>>

\* home_won.groupby(home_more_rested).mean()
WinRate(table) ==
    [ key \in { HomeMoreRested(r) : r \in Range(table.rows) } |->
        Tally(table.rows, key) ]

-----------------------------------------------------------------------------
(* The pipeline.                                                            *)

Init ==
    /\ pc = "read_csv"
    /\ raw = <<>>
    /\ games = <<>>
    /\ teams = <<>>
    /\ rest = <<>>
    /\ by_game = <<>>
    /\ games_rest = <<>>
    /\ win_rate = <<>>

\* read_csv reads one more line of the file.
ReadRow(rows) ==
    /\ pc = "read_csv"
    /\ Len(raw) < MaxRows
    /\ \E r \in rows : raw' = Append(raw, r)
    /\ UNCHANGED <<pc, games, teams, rest, by_game, games_rest, win_rate>>

ReadGameRow == ReadRow(GameRows \cup {SeparatorRow})

ReadPartialRow == ReadRow(GameRowsOnTwoDays \cup PartialRows \cup {SeparatorRow})

CleanGames ==
    /\ pc = "read_csv"
    /\ games' = Games(raw)
    /\ pc' = "melt"
    /\ UNCHANGED <<raw, teams, rest, by_game, games_rest, win_rate>>

MeltTeams ==
    /\ pc = "melt"
    /\ teams' = Teams(games)
    /\ pc' = "groupby_rest"
    /\ UNCHANGED <<raw, games, rest, by_game, games_rest, win_rate>>

ComputeRest ==
    /\ pc = "groupby_rest"
    /\ rest' = GroupbyRest(teams)
    /\ pc' = "assign_rest"
    /\ UNCHANGED <<raw, games, teams, by_game, games_rest, win_rate>>

AddRestColumn ==
    /\ pc = "assign_rest"
    /\ teams' = AssignRest(teams, rest)
    /\ pc' = "pivot_table"
    /\ UNCHANGED <<raw, games, rest, by_game, games_rest, win_rate>>

PivotByGame ==
    /\ pc = "pivot_table"
    /\ by_game' = PivotTable(teams)
    /\ pc' = "concat"
    /\ UNCHANGED <<raw, games, teams, rest, games_rest, win_rate>>

ConcatGamesRest ==
    /\ pc = "concat"
    /\ games_rest' = GamesRest(games, by_game)
    /\ pc' = "exercise"
    /\ UNCHANGED <<raw, games, teams, rest, by_game, win_rate>>

\* The exercise reads the columns home_rest and away_rest of games_rest.
Exercise ==
    /\ pc = "exercise"
    /\ {"home_rest", "away_rest"} \subseteq games_rest.columns
    /\ win_rate' = WinRate(games_rest)
    /\ pc' = "done"
    /\ UNCHANGED <<raw, games, teams, rest, by_game, games_rest>>

\* games_rest[...] of a column that games_rest does not have raises KeyError.
ExerciseKeyError ==
    /\ pc = "exercise"
    /\ ~ ({"home_rest", "away_rest"} \subseteq games_rest.columns)
    /\ pc' = "KeyError"
    /\ UNCHANGED <<raw, games, teams, rest, by_game, games_rest, win_rate>>

\* The rest-augmented tables that the exercise is tried on: up to MaxRows
\* games, each with both rest values and both points values.
RestedGame(id, hr, ar, hp, ap) ==
    [ game_id |-> id, date |-> 299 + id,
      away_team |-> <<"Cavaliers">>, away_points |-> <<ap>>,
      home_team |-> <<"Bulls">>, home_points |-> <<hp>>,
      home_rest |-> <<hr>>, away_rest |-> <<ar>> ]

RestedTables ==
    UNION { [ 1..n -> { <<hr, ar, hp, ap>> :
                          hr \in {1, 3}, ar \in {1, 3}, hp \in {93, 95, 97}, ap \in {95} } ] :
            n \in 0..MaxRows }

InitExercise ==
    /\ pc = "exercise"
    /\ raw = <<>>
    /\ games = <<>>
    /\ teams = <<>>
    /\ rest = <<>>
    /\ by_game = <<>>
    /\ \E t \in RestedTables :
          games_rest =
            [ columns |-> GamesColumns \cup {"home_rest", "away_rest"},
              rows |-> [ i \in DOMAIN t |->
                           RestedGame(i - 1, t[i][1], t[i][2], t[i][3], t[i][4]) ] ]
    /\ win_rate = <<>>

Pipeline ==
    \/ CleanGames \/ MeltTeams \/ ComputeRest \/ AddRestColumn
    \/ PivotByGame \/ ConcatGamesRest \/ Exercise \/ ExerciseKeyError

Next == ReadGameRow \/ Pipeline

\* The pipeline on files of complete game lines and month separators.
Spec == Init /\ [][Next]_vars

NextPartial == ReadPartialRow \/ Pipeline

\* The pipeline on files that also have lines with missing fields.
SpecPartial == Init /\ [][NextPartial]_vars

\* The exercise on rest-augmented tables given directly.
SpecExercise == InitExercise /\ [][Exercise]_vars

-----------------------------------------------------------------------------
(* The stages that the pipeline has passed.                                 *)

Cleaned == pc # "read_csv"

Melted == pc \notin {"read_csv", "melt"}

Rested == pc \in {"pivot_table", "concat", "exercise", "done", "KeyError"}

Pivoted == pc \in {"concat", "exercise", "done", "KeyError"}

Joined == pc \in {"exercise", "done", "KeyError"}

\* Appearance q comes before appearance r in the order teams is sorted in:
\* by game_id, the away row of a game before its home row.
EarlierInFile(q, r) ==
    \/ q.game_id < r.game_id
    \/ q.game_id = r.game_id /\ RoleRank(q.home_away) < RoleRank(r.home_away)

\* Appearance q comes before appearance r by date, ties broken by game key.
EarlierByDate(q, r) ==
    \/ q.date < r.date
    \/ q.date = r.date /\ q.game_id < r.game_id

\* The appearances of r's team that come before r in the order Earlier.
Before(r, Earlier(_, _)) ==
    { q \in Range(teams) : q.team = r.team /\ Earlier(q, r) }

\* Every appearance r that has one before it holds the days from the last
\* one before it to r, less one.
RestFollowsOrder(Earlier(_, _)) ==
    \A r \in Range(teams) :
        (notna(r.team) /\ Before(r, Earlier) # {}) =>
            \E p \in Before(r, Earlier) :
                /\ \A q \in Before(r, Earlier) : q = p \/ Earlier(q, p)
                /\ r.rest = <<r.date - p.date - 1>>

-----------------------------------------------------------------------------
(* C1 *)

\* C1, as stated: for every team, with its appearances ordered by date
\* (ties by game key), each appearance after the first holds the days from
\* the appearance before it in that order, less one.
C1_RestInDateOrder == Rested => RestFollowsOrder(EarlierByDate)

\* What the code computes: the same rule with each team's appearances in the
\* order of teams (game_id ascending, the order of the lines of the file),
\* whatever their dates.
RestInFileOrder == Rested => RestFollowsOrder(EarlierInFile)

-----------------------------------------------------------------------------
(* C2 *)

\* The positions of the appearances of game g in the role var.
AppearancesOf(g, var) ==
    { i \in DOMAIN teams :
        /\ teams[i].game_id = g.game_id
        /\ teams[i].home_away = var }

\* C2: melt turns every game into exactly two appearances, one in the role
\* home and one in the role away, each with the game's game_id, date and the
\* team of that role; the game_ids of the appearances are those of the games.
C2_MeltTwoAppearancesPerGame ==
    Melted =>
        /\ \A g \in Range(games) :
             /\ Cardinality({ i \in DOMAIN teams : teams[i].game_id = g.game_id }) = 2
             /\ \A var \in {"away_team", "home_team"} :
                  /\ Cardinality(AppearancesOf(g, var)) = 1
                  /\ \A i \in AppearancesOf(g, var) :
                       teams[i].date = g.date /\ teams[i].team = g[var]
        /\ { t.game_id : t \in Range(teams) } = { g.game_id : g \in Range(games) }
        /\ Len(teams) = 2 * Len(games)

\* Two games have been melted, one of them with a missing team name.
C2_Witness ==
    /\ pc = "groupby_rest"
    /\ Len(games) >= 2
    /\ \E g \in Range(games) : isna(g.away_team)
    /\ Len(teams) = 2 * Len(games)

-----------------------------------------------------------------------------
(* C3 *)

\* The positions in teams of the appearances of the team named name.
PositionsOf(name) == { i \in DOMAIN teams : teams[i].team = <<name>> }

TeamNames == { t.team[1] : t \in { u \in Range(teams) : notna(u.team) } }

\* C3: a team with N >= 1 appearances has exactly N - 1 defined rest values
\* and exactly one missing value, that of its first appearance in teams; a
\* team with one appearance has no defined rest value.
C3_OneMissingRestPerTeam ==
    Rested =>
        \A name \in TeamNames :
            LET pos == PositionsOf(name)
                missing == { i \in pos : isna(teams[i].rest) }
            IN  /\ Cardinality(missing) = 1
                /\ Cardinality(pos \ missing) = Cardinality(pos) - 1
                /\ \A i \in missing : \A j \in pos : i <= j

\* One team has three appearances and another has one.
C3_Witness ==
    /\ Rested
    /\ \E name \in TeamNames : Cardinality(PositionsOf(name)) = 3
    /\ \E name \in TeamNames :
         /\ Cardinality(PositionsOf(name)) = 1
         /\ \A i \in PositionsOf(name) : isna(teams[i].rest)

-----------------------------------------------------------------------------
(* C4 *)

\* The game g has an appearance whose rest value is missing.
LacksRest(g) ==
    \E t \in Range(teams) : t.game_id = g.game_id /\ isna(t.rest)

HasRow(table, g) ==
    \E r \in Range(table.rows) : r.game_id = g.game_id /\ r.date = g.date

\* C4: a game whose home or away rest value is missing is not in games_rest,
\* and every row of games_rest has a home_rest and an away_rest.
C4_GamesRestHasBothRests ==
    Joined =>
        /\ \A g \in Range(games) : LacksRest(g) => ~ HasRow(games_rest, g)
        /\ \A r \in Range(games_rest.rows) :
             \A c \in {"home_rest", "away_rest"} :
                 c \in DOMAIN r /\ notna(r[c])

-----------------------------------------------------------------------------
(* C5 *)

KeysOnce(table) ==
    \A i, j \in DOMAIN table.rows :
        ( /\ table.rows[i].game_id = table.rows[j].game_id
          /\ table.rows[i].date = table.rows[j].date ) => i = j

KeysOfGames(table) ==
    \A r \in Range(table.rows) :
        \E g \in Range(games) : g.game_id = r.game_id /\ g.date = r.date

\* C5: in by_game and in games_rest every key (game_id, date) occurs at most
\* once and is the key of a game of games.
C5_OneRowPerGame ==
    /\ Pivoted => KeysOnce(by_game) /\ KeysOfGames(by_game)
    /\ Joined => KeysOnce(games_rest) /\ KeysOfGames(games_rest)

\* by_game holds a game with both rest values, and games_rest has a row.
C5_Witness ==
    /\ Joined
    /\ \E r \in Range(by_game.rows) :
         /\ by_game.columns = {"home_rest", "away_rest"}
         /\ notna(r.home_rest) /\ notna(r.away_rest)
    /\ games_rest.rows # <<>>

-----------------------------------------------------------------------------
(* C6 *)

\* The game of appearance t lacks a team name or a points value.
GameLacksField(t) ==
    \E g \in Range(games) :
        /\ g.game_id = t.game_id
        /\ \E c \in GamesColumns : isna(g[c])

\* C6, as stated: an appearance of a game that lacks a team name or a points
\* value has a missing rest value.
C6_MissingFieldMissingRest ==
    Rested => \A t \in Range(teams) : GameLacksField(t) => isna(t.rest)

\* C6, amended: an appearance whose own team name is missing has a missing
\* rest value, as a team's first appearance has; a missing points value, or
\* a missing name of the other team, leaves the rest value as it is for any
\* game: defined when the team has an appearance before it.
C6_MissingTeamMissingRest ==
    Rested =>
        \A t \in Range(teams) :
            /\ isna(t.team) => isna(t.rest)
            /\ (notna(t.team) /\ GameLacksField(t)) =>
                 (isna(t.rest) <=> Before(t, EarlierInFile) = {})

\* A game without points whose two teams have played before, and a second
\* appearance without a team name.
C6_Witness ==
    /\ Rested
    /\ \E t \in Range(teams) :
         /\ GameLacksField(t) /\ notna(t.team) /\ notna(t.rest)
    /\ \E t, u \in Range(teams) :
         /\ isna(t.team) /\ isna(u.team) /\ t.game_id < u.game_id
         /\ t.home_away = u.home_away

-----------------------------------------------------------------------------
(* C7 *)

\* The role that a rest column of by_game was renamed from.
RoleOf(c) == IF c = "away_rest" THEN "away_team" ELSE "home_team"

\* by_game melted back: one row per game and rest column.
Remelted ==
    { [ game_id |-> r.game_id, date |-> r.date, home_away |-> RoleOf(c),
        rest |-> r[c] ] : r \in Range(by_game.rows), c \in by_game.columns }

BothRestsDefined(g) ==
    /\ \E t \in Range(teams) : t.game_id = g.game_id
    /\ ~ LacksRest(g)

\* C7: for every game with both rest values defined and for each role,
\* by_game melted back holds exactly the rest value that teams holds for
\* that game and role.
C7_RoundTrip ==
    Pivoted =>
        \A t \in Range(teams) :
            (\E g \in Range(games) : g.game_id = t.game_id /\ BothRestsDefined(g)) =>
                /\ \E m \in Remelted :
                     /\ m.game_id = t.game_id /\ m.date = t.date
                     /\ m.home_away = t.home_away
                /\ \A m \in Remelted :
                     ( /\ m.game_id = t.game_id /\ m.date = t.date
                       /\ m.home_away = t.home_away ) => m.rest = t.rest

\* A game whose home team and away team have different defined rest values.
C7_Witness ==
    /\ Pivoted
    /\ \E g \in Range(games) :
         /\ BothRestsDefined(g)
         /\ \E t, u \in Range(teams) :
              /\ t.game_id = g.game_id /\ u.game_id = g.game_id
              /\ t.rest # u.rest

-----------------------------------------------------------------------------
(* C8 *)

\* The positions of the team named name are next to each other in its group.
Consecutive(name, i, j) ==
    /\ i \in PositionsOf(name) /\ j \in PositionsOf(name) /\ i < j
    /\ \A k \in PositionsOf(name) : ~ (i < k /\ k < j)

DatesIncrease(name) ==
    \A i, j \in PositionsOf(name) :
        Consecutive(name, i, j) => teams[j].date - teams[i].date >= 1

\* C8: when a team's appearances, in the order of teams, have strictly
\* increasing dates, every defined rest value of the team is >= 0, and an
\* appearance one day after the one before it has rest 0.
C8_RestNotNegative ==
    Rested =>
        \A name \in TeamNames :
            DatesIncrease(name) =>
                /\ \A i \in PositionsOf(name) :
                     notna(teams[i].rest) => teams[i].rest[1] >= 0
                /\ \A i, j \in PositionsOf(name) :
                     ( /\ Consecutive(name, i, j)
                       /\ teams[j].date - teams[i].date = 1 ) =>
                         teams[j].rest = <<0>>

\* A team plays on consecutive days, across the end of a month or not.
C8_Witness ==
    /\ Rested
    /\ \E name \in TeamNames :
         /\ DatesIncrease(name)
         /\ \E i, j \in PositionsOf(name) :
              /\ Consecutive(name, i, j)
              /\ teams[j].date - teams[i].date = 1
              /\ teams[j].rest = <<0>>

-----------------------------------------------------------------------------
(* C9 *)

\* The line number i of the file is in none of the tables computed so far.
InNoTable(i) ==
    /\ \A g \in Range(games) : g.game_id # i - 1
    /\ Melted => \A t \in Range(teams) : t.game_id # i - 1
    /\ Pivoted => \A r \in Range(by_game.rows) : r.game_id # i - 1
    /\ Joined => \A r \in Range(games_rest.rows) : r.game_id # i - 1

\* C9: a line of the file is discarded exactly when fewer than 4 of its
\* fields are not missing, and a discarded line is in none of games, teams,
\* by_game and games_rest.
C9_DropsRowsBelowFourFields ==
    Cleaned =>
        \A i \in DOMAIN raw :
            /\ count_notna(raw[i]) < 4 <=> (\A g \in Range(games) : g.game_id # i - 1)
            /\ count_notna(raw[i]) < 4 => InNoTable(i)

\* The file has a month separator, a line with 3 fields and a line with
\* exactly 4 fields, and the pipeline has run to the join.
C9_Witness ==
    /\ Joined
    /\ \E i, j, k \in DOMAIN raw :
         /\ raw[i] = SeparatorRow
         /\ count_notna(raw[j]) = 3
         /\ count_notna(raw[k]) = 4
         /\ \E g \in Range(games) : g.game_id = k - 1

-----------------------------------------------------------------------------
(* C10 *)

\* The rows of games_rest in which (home_rest > away_rest) = key.
GroupOf(key) ==
    { i \in DOMAIN games_rest.rows :
        (games_rest.rows[i].home_rest[1] > games_rest.rows[i].away_rest[1]) = key }

WonIn(group) ==
    { i \in group :
        games_rest.rows[i].home_points[1] > games_rest.rows[i].away_points[1] }

\* Game A: home rest 3, away rest 1, the home team won.
GameA == RestedGame(0, 3, 1, 97, 95)

\* Game B: home rest 1, away rest 1, the home team lost.
GameB == RestedGame(1, 1, 1, 93, 95)

\* C10: the exercise returns, for each value of home_rest > away_rest that
\* occurs (equal rest counts as not more rested), the fraction <<won, n>> of
\* that group's n games in which home_points > away_points; for Game A and
\* Game B it returns 1/1 for True and 0/1 for False.
C10_WinRateByRestAdvantage ==
    pc = "done" =>
        /\ DOMAIN win_rate = { key \in BOOLEAN : GroupOf(key) # {} }
        /\ \A key \in DOMAIN win_rate :
             win_rate[key] =
                <<Cardinality(WonIn(GroupOf(key))), Cardinality(GroupOf(key))>>
        /\ games_rest.rows = <<GameA, GameB>> =>
             /\ win_rate[TRUE] = <<1, 1>>
             /\ win_rate[FALSE] = <<0, 1>>

\* The exercise has been answered for Game A and Game B.
C10_Witness ==
    /\ pc = "done"
    /\ games_rest.rows = <<GameA, GameB>>
    /\ DOMAIN win_rate = BOOLEAN

-----------------------------------------------------------------------------
(* C11 *)

\* The four values of game g in games and the rest values of its two
\* appearances in teams are all defined.
AllSixDefined(g) ==
    /\ \A c \in GamesColumns : notna(g[c])
    /\ BothRestsDefined(g)

\* The points of game g are missing and both of its rest values are defined.
RestedWithoutPoints(g) ==
    /\ isna(g.away_points) \/ isna(g.home_points)
    /\ BothRestsDefined(g)

\* C11: games_rest holds a game if and only if its away_team, away_points,
\* home_team, home_points, home_rest and away_rest are all defined; a game
\* with both rest values and no points is left out, and its appearances are
\* still the ones that later rest values of its teams are counted from.
C11_GamesRestIffAllSixDefined ==
    Joined =>
        /\ \A g \in Range(games) : HasRow(games_rest, g) <=> AllSixDefined(g)
        /\ \A g \in Range(games) : RestedWithoutPoints(g) => ~ HasRow(games_rest, g)
        /\ RestFollowsOrder(EarlierInFile)

\* The part of C11 that the code keeps: a game with all six values defined
\* is in games_rest, a game with a missing team or points value is not, and
\* the appearances of a game without points are counted from.
C11_HeldPart ==
    Joined =>
        /\ \A g \in Range(games) : AllSixDefined(g) => HasRow(games_rest, g)
        /\ \A g \in Range(games) :
             (\E c \in GamesColumns : isna(g[c])) => ~ HasRow(games_rest, g)
        /\ RestFollowsOrder(EarlierInFile)

\* A game without points has both rest values, and a later appearance of one
\* of its teams is counted from it.
C11_HeldPartWitness ==
    /\ Joined
    /\ \E g \in Range(games) :
         /\ RestedWithoutPoints(g)
         /\ \E t, u \in Range(teams) :
              /\ t.game_id = g.game_id /\ u.team = t.team
              /\ u.game_id > t.game_id
              /\ u.rest = <<u.date - t.date - 1>>

====
